---------------------------- MODULE Spec2Model ----------------------------
(***************************************************************************)
(* Model of tensormeterclient.py: the TensormeterData codec and store, and *)
(* the TensormeterRTM1Client with its background _reader thread, the       *)
(* caller's thread and the remote RTM server as environment.               *)
(*                                                                         *)
(* Bytes are the integers 0..255; byte strings and ASCII strings are       *)
(* sequences of them (str.encode/bytes.decode "ASCII" map one to one for   *)
(* bytes below 128 and raise above).                                       *)
(***************************************************************************)
EXTENDS Integers, Sequences, FiniteSets, TLC

(***************************************************************************)
(* Bounds of the model.                                                    *)
(***************************************************************************)
\* how many messages the remote server sends in one run
MaxMsgs == 2
\* how many calls of recv in one run return fewer bytes than were asked for
\* although the server has sent them already (they are still on their way)
MaxShort == 1

(***************************************************************************)
(* Field codes, as ASCII byte strings.                                     *)
(***************************************************************************)
avgt == <<97, 118, 103, 116>>
lfrq == <<108, 102, 114, 113>>
vamp == <<118, 97, 109, 112>>
vpro == <<118, 112, 114, 111>>
camp == <<99, 97, 109, 112>>
cpro == <<99, 112, 114, 111>>
virg == <<118, 105, 114, 103>>
cudc == <<99, 117, 100, 99>>
vodc == <<118, 111, 100, 99>>
vorg == <<118, 111, 114, 103>>
crng == <<99, 114, 110, 103>>
sres == <<115, 114, 101, 115>>
aaup == <<97, 97, 117, 112>>
tcai == <<116, 99, 97, 105>>
refe == <<114, 101, 102, 101>>
cmod == <<99, 109, 111, 100>>
amod == <<97, 109, 111, 100>>
modq == <<109, 111, 100, 63>>
trmo == <<116, 114, 109, 111>>
meas == <<109, 101, 97, 115>>
swit == <<115, 119, 105, 116>>
selc == <<115, 101, 108, 99>>
puar == <<112, 117, 97, 114>>
newd == <<110, 101, 119, 100>>
alld == <<97, 108, 108, 100>>
mult == <<109, 117, 108, 116>>
auup == <<97, 117, 117, 112>>
TENS == <<84, 69, 78, 83>>
cldt == <<99, 108, 100, 116>>
IDNq == <<42, 73, 68, 78, 63>>
\* a code the catalog does not hold ("zzzz")
zzzz == <<122, 122, 122, 122>>

\* TensormeterData.LUT: param -> <<dimensions, format>>
LUTTable ==
    { <<avgt, 0, "d">>, <<lfrq, 0, "d">>, <<vamp, 0, "d">>, <<vpro, 0, "d">>,
      <<camp, 0, "d">>, <<cpro, 0, "d">>, <<virg, 0, "d">>, <<cudc, 0, "d">>,
      <<vodc, 0, "d">>, <<vorg, 0, "d">>, <<crng, 0, "d">>, <<sres, 0, "d">>,
      <<aaup, 0, "?">>, <<tcai, 0, "?">>, <<refe, 0, "?">>,
      <<cmod, 0, "H">>, <<amod, 0, "H">>, <<modq, 0, "H">>,
      <<trmo, 0, "I">>, <<meas, 0, "i">>,
      <<swit, 1, "I">>, <<selc, 1, "i">>, <<puar, 1, "d">>,
      <<newd, 2, "d">>, <<alld, 2, "d">>,
      <<mult, 0, "H">>, <<auup, 0, "?">> }

LUTKeys == { e[1] : e \in LUTTable }

LUT == [ c \in LUTKeys |-> LET e == CHOOSE x \in LUTTable : x[1] = c
                           IN  <<e[2], e[3]>> ]

(***************************************************************************)
(* struct: big-endian fixed-width elements.                                *)
(***************************************************************************)
\* struct.calcsize of one element
FmtSize(fmt) ==
    CASE fmt = "d" -> 8
      [] fmt = "?" -> 1
      [] fmt = "H" -> 2
      [] fmt = "I" -> 4
      [] fmt = "i" -> 4

Slice(s, from, to) == SubSeq(s, from, to)

\* unsigned big-endian value of 1..4 bytes (the first byte of 4 below 128)
BEUnsigned(b) ==
    LET RECURSIVE Go(_, _)
        Go(i, acc) == IF i > Len(b) THEN acc ELSE Go(i + 1, acc * 256 + b[i])
    IN  Go(1, 0)

\* signed (two's complement) big-endian value of 4 bytes
BESigned(b) ==
    BEUnsigned(<<IF b[1] >= 128 THEN b[1] - 256 ELSE b[1]>> \o Slice(b, 2, Len(b)))

\* big-endian bytes, w of them, of the integer n (two's complement if n < 0)
BEBytes(n, w) ==
    LET RECURSIVE Pow(_)
        Pow(k) == IF k = 0 THEN 1 ELSE 256 * Pow(k - 1)
    IN  [ i \in 1..w |-> (n \div Pow(w - i)) % 256 ]

(***************************************************************************)
(* Python values.  Every value is a record [t, shape, v]: t the type, v    *)
(* the sequence of its elements, each element a sequence of integers: one  *)
(* integer for int, bool and a character, and the two signed 32-bit halves *)
(* of the IEEE-754 bit pattern for a float.  shape is <<rows, columns>> of *)
(* a 2-d array and <<>> otherwise.                                         *)
(***************************************************************************)
None == [t |-> "None", shape |-> <<>>, v |-> <<>>]
PyInt(n) == [t |-> "int", shape |-> <<>>, v |-> <<<<n>>>>]
PyBool(b) == [t |-> "bool", shape |-> <<>>, v |-> <<<<IF b THEN 1 ELSE 0>>>>]
PyFloat(hi, lo) == [t |-> "float", shape |-> <<>>, v |-> <<<<hi, lo>>>>]
PyStr(s) == [t |-> "str", shape |-> <<>>, v |-> [i \in 1..Len(s) |-> <<s[i]>>]]
\* a list ("list") or tuple ("tuple") of elements of element type et
PySeq(kind, et, elems) == [t |-> kind \o ":" \o et, shape |-> <<>>, v |-> elems]
\* the array with its axes in the other order
PyArray_NoSwap(rows, cols, elems) == [t |-> "ndarray", shape |-> <<cols, rows>>, v |-> elems]
PyArray(rows, cols, elems) == [t |-> "ndarray", shape |-> <<rows, cols>>, v |-> elems]

\* Python's truth value of a value (bool(x))
Truthy(x) ==
    CASE x.t = "None" -> FALSE
      [] x.t = "int" -> x.v[1][1] # 0
      [] x.t = "bool" -> x.v[1][1] # 0
      [] x.t = "float" -> ~ (x.v[1][2] = 0 /\ x.v[1][1] \in {0, -2147483647 - 1})
      [] OTHER -> Len(x.v) > 0

\* the element type struct gives for a format character
FmtType(fmt) ==
    CASE fmt = "d" -> "float"
      [] fmt = "?" -> "bool"
      [] OTHER -> "int"

\* struct.pack of one element: <<TRUE, bytes>> or <<FALSE, <<>>>> (struct.error)
PackElem(fmt, et, e) ==
    CASE fmt = "d" ->
            \* float fields are given float values in this model
            IF et = "float" THEN <<TRUE, BEBytes(e[1], 4) \o BEBytes(e[2], 4)>>
            ELSE <<FALSE, <<>>>>
      [] fmt = "?" ->
            <<TRUE, <<IF (et = "float" /\ ~(e[2] = 0 /\ e[1] \in {0, -2147483647 - 1}))
                         \/ (et # "float" /\ e[1] # 0) THEN 1 ELSE 0>>>>
      [] fmt = "H" ->
            IF et \in {"int", "bool"} /\ e[1] >= 0 /\ e[1] <= 65535
            THEN <<TRUE, BEBytes(e[1], 2)>> ELSE <<FALSE, <<>>>>
      [] fmt = "I" ->
            IF et \in {"int", "bool"} /\ e[1] >= 0
            THEN <<TRUE, BEBytes(e[1], 4)>> ELSE <<FALSE, <<>>>>
      [] fmt = "i" ->
            IF et \in {"int", "bool"}
            THEN <<TRUE, BEBytes(e[1], 4)>> ELSE <<FALSE, <<>>>>

\* struct.unpack reading the signed format i as the unsigned I
UnpackElem_Unsigned(fmt, b) ==
    CASE fmt = "d" -> <<BESigned(Slice(b, 1, 4)), BESigned(Slice(b, 5, 8))>>
      [] fmt = "?" -> <<IF b[1] # 0 THEN 1 ELSE 0>>
      [] OTHER -> <<BEUnsigned(<<b[1] % 128>> \o Slice(b, 2, Len(b)))>>

\* struct.unpack of one element of exactly FmtSize(fmt) bytes
UnpackElem(fmt, b) ==
    CASE fmt = "d" -> <<BESigned(Slice(b, 1, 4)), BESigned(Slice(b, 5, 8))>>
      [] fmt = "?" -> <<IF b[1] # 0 THEN 1 ELSE 0>>
      [] fmt = "H" -> <<BEUnsigned(b)>>
      [] fmt = "I" -> <<BEUnsigned(b)>>
      [] fmt = "i" -> <<BESigned(b)>>

\* the elements of count*FmtSize(fmt) bytes, in order
UnpackElems(fmt, count, b) ==
    [ k \in 1..count |->
        UnpackElem(fmt, Slice(b, (k - 1) * FmtSize(fmt) + 1, k * FmtSize(fmt))) ]

Raise(exc) == [exc |-> exc, val |-> None, bytes |-> <<>>]
Packed(b) == [exc |-> "", val |-> None, bytes |-> b]
Returned(x) == [exc |-> "", val |-> x, bytes |-> <<>>]

IsSeq(x) == x.t \in { k \o ":" \o et : k \in {"list", "tuple"}, et \in {"int", "bool", "float"} }

\* the element type of a list or tuple
ElemType(x) ==
    CASE x.t \in {"list:int", "tuple:int"} -> "int"
      [] x.t \in {"list:bool", "tuple:bool"} -> "bool"
      [] x.t \in {"list:float", "tuple:float"} -> "float"

\* struct.pack of the elements in order: <<TRUE, bytes>>, or <<FALSE, <<>>>>
PackElems(fmt, et, elems) ==
    LET RECURSIVE Go(_, _)
        Go(i, acc) ==
            IF i > Len(elems) THEN <<TRUE, acc>>
            ELSE LET p == PackElem(fmt, et, elems[i])
                 IN  IF p[1] THEN Go(i + 1, acc \o p[2]) ELSE <<FALSE, <<>>>>
    IN  Go(1, <<>>)

(***************************************************************************)
(* TensormeterData.pack, unpack, update.                                   *)
(***************************************************************************)
pack(cmd, data) ==
    IF cmd \notin LUTKeys THEN Raise("KeyError")
    ELSE LET dims == LUT[cmd][1]
             fmt  == LUT[cmd][2]
         IN  IF dims = 0
             THEN IF IsSeq(data) \/ data.t \in {"None", "str"}
                  THEN IF fmt = "?" THEN Packed(<<IF Truthy(data) THEN 1 ELSE 0>>)
                       ELSE Raise("struct.error")
                  ELSE LET p == PackElem(fmt, data.t, data.v[1])
                       IN  IF p[1] THEN Packed(p[2]) ELSE Raise("struct.error")
             ELSE IF dims = 1
             THEN IF ~ IsSeq(data) THEN Raise("TypeError")
                  ELSE LET count == Len(data.v)
                           p == PackElems(fmt, ElemType(data), data.v)
                       IN  IF p[1] THEN Packed(BEBytes(count, 4) \o p[2])
                           ELSE Raise("struct.error")
             ELSE Raise("NotImplementedError")

\* struct.unpack without the test of the buffer's length (as unpack_from):
\* bytes after the elements are ignored
StructSizeOk_AtLeast(n, w, b) == Len(b) >= n * w

\* struct.unpack(f">{n}{fmt}", b) takes a buffer of exactly calcsize bytes,
\* and raises struct.error otherwise
StructSizeOk(n, w, b) == Len(b) = n * w

\* reshape without the test of the size
ReshapeOk_Unchecked(size, d1, d2) == TRUE

\* ndarray.reshape(d1, d2) of an array of size elements: ValueError unless
\* the new shape has the same size
ReshapeOk(size, d1, d2) == d1 * d2 = size

unpack(cmd, data) ==
    IF cmd = TENS
    THEN IF \E i \in 1..Len(data) : data[i] >= 128
         THEN Raise("UnicodeDecodeError")
         ELSE Returned(PyStr(cmd \o data))
    ELSE LET dims == LUT[cmd][1]
             fmt  == LUT[cmd][2]
             w    == FmtSize(fmt)
         IN  IF dims = 0
             THEN IF ~ StructSizeOk(1, w, data) THEN Raise("struct.error")
                  ELSE Returned([t |-> FmtType(fmt), shape |-> <<>>,
                                 v |-> <<UnpackElem(fmt, data)>>])
             ELSE IF dims = 1
             THEN IF Len(data) < 4 THEN Raise("struct.error")
                  ELSE LET count == BEUnsigned(Slice(data, 1, 4))
                           rest  == Slice(data, 5, Len(data))
                       IN  IF ~ StructSizeOk(count, w, rest) THEN Raise("struct.error")
                           ELSE Returned(PySeq("tuple", FmtType(fmt),
                                               UnpackElems(fmt, count, rest)))
             ELSE \* dims = 2
                  IF Len(data) < 8 THEN Raise("struct.error")
                  ELSE LET rows == BEUnsigned(Slice(data, 1, 4))
                           cols == BEUnsigned(Slice(data, 5, 8))
                           rest == Slice(data, 9, Len(data))
                       IN  \* np.frombuffer: the buffer is whole elements
                           IF Len(rest) % w # 0 THEN Raise("ValueError")
                           \* ndarray.reshape: the size is cols * rows
                           ELSE IF ~ ReshapeOk(Len(rest) \div w, cols, rows) THEN Raise("ValueError")
                           ELSE Returned(PyArray(cols, rows,
                                                 UnpackElems(fmt, Len(rest) \div w, rest)))

\* ValueError and its subclasses, which _reader's except clause catches
IsValueError(exc) == exc \in {"ValueError", "UnicodeDecodeError"}

\* update without the check of line 81: a plain dictionary assignment
update_NoKeyCheck(d, cmd, data) ==
    LET u == IF cmd \in LUTKeys \cup {TENS} THEN unpack(cmd, data)
             ELSE Returned(PyStr(data))
    IN  [exc |-> u.exc,
         data |-> IF u.exc = ""
                  THEN [k \in DOMAIN d \cup {cmd} |-> IF k = cmd THEN u.val ELSE d[k]]
                  ELSE d,
         errcmd |-> <<>>, errlen |-> 0]

\* update on the dictionary d: [exc, data, errcmd, errlen]; data is the
\* dictionary afterwards, errcmd and errlen what the unknown-field error names
update(d, cmd, data) ==
    IF cmd \notin DOMAIN d
    THEN [exc |-> "ValueError", data |-> d, errcmd |-> cmd, errlen |-> Len(data)]
    ELSE LET u == unpack(cmd, data)
         IN  [exc |-> u.exc,
              data |-> IF u.exc = "" THEN [d EXCEPT ![cmd] = u.val] ELSE d,
              errcmd |-> <<>>, errlen |-> 0]

\* TensormeterData.__init__
InitData == [ k \in LUTKeys \cup {TENS} |-> IF k = TENS THEN PyStr(<<>>) ELSE None ]

(***************************************************************************)
(* What the environment and the caller supply.                             *)
(***************************************************************************)
\* IEEE-754 bit pattern of 1.0, big-endian
F1 == BEBytes(1072693248, 4) \o BEBytes(0, 4)

\* a wire message: length prefix covering code and payload, code, payload
Frame(c, payload) == BEBytes(Len(c) + Len(payload), 4) \o c \o payload

\* the messages the remote server may send
InMsgs ==
    { Frame(newd, BEBytes(1, 4) \o BEBytes(1, 4) \o F1),   \* 1 x 1 matrix
      Frame(newd, <<>>),                                   \* marker, no payload
      Frame(alld, BEBytes(2, 4) \o BEBytes(1, 4) \o F1),   \* header 2 x 1, one element
      Frame(meas, BEBytes(5, 2)),                          \* scalar of wrong width
      Frame(zzzz, <<7>>) }                                 \* unknown code

\* arguments of send(cmd, data)
SendInputs ==
    { <<aaup, PyBool(FALSE)>>, <<selc, PySeq("list", "int", <<<<1>>, <<-2>>>>)>>,
      <<newd, PyArray(1, 1, <<<<0, 0>>>>)>> }
\* arguments of measure(nmeas)
MeasureInputs == { 0, 5 }
\* arguments of select_channels(channels)
ChannelInputs == { <<>>, <<<<3>>>> }
\* names read as attributes of the client
AttrNames == { newd, zzzz }

(***************************************************************************)
(* State.                                                                  *)
(***************************************************************************)
VARIABLES
    tensordata,        \* self._tensordata.data
    stopped,           \* self._stopped
    closed,            \* self._sel unregistered and closed, self._s closed
    data_ready_event,  \* self._data_ready_event's flag
    rpc,               \* where the _reader thread is
    r_exc,             \* the exception that ended the _reader thread, and the
                       \* source line that raised it
    r_length,          \* _reader's length
    r_cmd,             \* _reader's cmd
    r_data,            \* _reader's data
    lastError,         \* the last self._log.error of a failed update
    cpc,               \* where the caller's thread is
    g_cmd,             \* get_data's cmd
    ret,               \* the caller's last call: what it returned or raised, and
                       \* the bytes it wrote to the socket
    rbuf,              \* bytes the server has sent and recv has not returned yet
    peerClosed,        \* the server has shut its side down
    nsent,             \* how many messages the server has sent
    nshort,            \* how many calls of recv came back short
    \* history, for stating the properties
    h_pending,         \* the messages with bytes in rbuf, in order
    h_headread,        \* how many bytes of the first of them recv has returned
    h_cur,             \* the server's message that begins where _reader began to
                       \* read its current message (<<>> if none begins there)
    h_fresh,           \* marker codes stored since the pending get_data's request
    h_marker,          \* a marker message was processed since that request
    h_sets,            \* data-ready signals raised since the last clear
    h_eof,             \* _reader read zero bytes for a length prefix
    h_closed           \* the caller's close() has returned

vars == << tensordata, stopped, closed, data_ready_event, rpc, r_exc, r_length,
           r_cmd, r_data, lastError, cpc, g_cmd, ret, rbuf, peerClosed, nsent,
           nshort, h_pending, h_headread, h_cur, h_fresh, h_marker, h_sets,
           h_eof, h_closed >>

clientVars == << tensordata, stopped, closed, data_ready_event, lastError >>
readerVars == << rpc, r_exc, r_length, r_cmd, r_data >>
callerVars == << cpc, g_cmd, ret >>
netVars == << rbuf, peerClosed, nsent, nshort, h_pending, h_headread >>
histVars == << h_cur, h_fresh, h_marker, h_sets, h_eof, h_closed >>

NoError == [cmd |-> <<>>, exc |-> "", errcmd |-> <<>>, errlen |-> 0]
\* a call op(arg) that sent the command cmd: it raised exc or returned val,
\* and wrote msg to the socket
Ret(op, cmd, arg, exc, val, msg) ==
    [op |-> op, cmd |-> cmd, arg |-> arg, exc |-> exc, val |-> val, msg |-> msg]

\* TensormeterRTM1Client.send builds the message: [exc, bytes]
SendMsg(c, x) ==
    LET data_bytes == IF Truthy(x) THEN pack(c, x) ELSE Packed(<<>>)
    IN  IF data_bytes.exc # "" THEN data_bytes
        ELSE Packed(BEBytes(Len(c) + Len(data_bytes.bytes), 4) \o c \o data_bytes.bytes)

\* __init__: connect() registers the socket, clears _stopped and starts the
\* _reader thread, then send("*IDN?")
Init ==
    /\ tensordata = InitData
    /\ stopped = FALSE
    /\ closed = FALSE
    /\ data_ready_event = FALSE
    /\ rpc = "loop"
    /\ r_exc = [exc |-> "", line |-> 0]
    /\ r_length = 0
    /\ r_cmd = <<>>
    /\ r_data = <<>>
    /\ lastError = NoError
    /\ cpc = "idle"
    /\ g_cmd = <<>>
    /\ ret = Ret("__init__", IDNq, None, "", None, SendMsg(IDNq, None).bytes)
    /\ rbuf = <<>>
    /\ peerClosed = FALSE
    /\ nsent = 0
    /\ nshort = 0
    /\ h_pending = <<>>
    /\ h_headread = 0
    /\ h_cur = <<>>
    /\ h_fresh = {}
    /\ h_marker = FALSE
    /\ h_sets = 0
    /\ h_eof = FALSE
    /\ h_closed = FALSE

(***************************************************************************)
(* The socket and the selector.  The selector watches the one socket;      *)
(* close() unregisters it, closes the selector and closes the socket.      *)
(* rbuf holds every byte the server has sent and recv has not returned:    *)
(* some of them have arrived, the rest are still on their way.             *)
(***************************************************************************)
Min(a, b) == IF a < b THEN a ELSE b

\* the server has shut down and every byte it sent was received
AtEOF == peerClosed /\ rbuf = <<>>

\* self._sel.select() returns: the registered socket is readable
Readable == ~ closed /\ (rbuf # <<>> \/ AtEOF)

\* The outcomes of self._s.recv(n) on the non-blocking socket, as records
\* [exc, bytes, short].  ready: select() has just reported the socket
\* readable, so at least one byte has arrived unless the stream is at its end.
\* short: bytes the server has sent were not there yet.
recv(n, ready) ==
    LET Out(r, sh) == [exc |-> r.exc, bytes |-> r.bytes, short |-> sh]
        avail == Min(n, Len(rbuf))
    IN  IF n < 0 THEN { Out(Raise("ValueError"), FALSE) }
        ELSE IF n = 0 THEN { Out(Packed(<<>>), FALSE) }
        ELSE IF closed THEN { Out(Raise("OSError"), FALSE) }
        ELSE IF rbuf = <<>>
        THEN IF peerClosed
             THEN { Out(Packed(<<>>), FALSE) }
                  \cup { Out(Raise("BlockingIOError"), TRUE) : x \in {1} \ {IF ready THEN 1 ELSE 0} }
             ELSE { Out(Raise("BlockingIOError"), FALSE) }
        ELSE { Out(Packed(SubSeq(rbuf, 1, avail)), FALSE) }
             \cup { Out(Packed(SubSeq(rbuf, 1, k)), TRUE) : k \in 1..(avail - 1) }
             \cup { Out(Raise("BlockingIOError"), TRUE) : x \in {1} \ {IF ready THEN 1 ELSE 0} }

\* the outcomes of recv the bound on short reads admits
Recv(n, ready) == { r \in recv(n, ready) : r.short => nshort < MaxShort }

\* the pending messages after n more bytes were received, h bytes of the
\* first having been received before: <<messages, bytes of the first received>>
Advance(ms, h, n) ==
    LET RECURSIVE Go(_, _)
        Go(q, k) == IF q # <<>> /\ k >= Len(Head(q)) THEN Go(Tail(q), k - Len(Head(q)))
                    ELSE <<q, k>>
    IN  Go(ms, h + n)

\* recv returned r
Took(r) ==
    /\ rbuf' = SubSeq(rbuf, Len(r.bytes) + 1, Len(rbuf))
    /\ nshort' = IF r.short THEN nshort + 1 ELSE nshort
    /\ h_pending' = Advance(h_pending, h_headread, Len(r.bytes))[1]
    /\ h_headread' = Advance(h_pending, h_headread, Len(r.bytes))[2]

\* an exception not caught in _reader ends the thread
Crash(exc, line) ==
    /\ rpc' = "crashed"
    /\ r_exc' = [exc |-> exc, line |-> line]

(***************************************************************************)
(* The _reader thread.                                                     *)
(***************************************************************************)
\* line 118, and the call of select in line 119
ReaderLoop ==
    /\ rpc = "loop"
    /\ IF stopped THEN rpc' = "exited" /\ r_exc' = r_exc
       ELSE IF closed THEN Crash("ValueError", 119)   \* select on a closed selector
       ELSE rpc' = "select" /\ r_exc' = r_exc
    /\ UNCHANGED << clientVars, r_length, r_cmd, r_data, callerVars, netVars, histVars >>

\* lines 119 and 127: the selector was closed by the other thread while this
\* one was blocked in select.  Whether the blocked call then fails or stays
\* blocked depends on the selector of the platform: it may fail (this
\* action), or never return (no step).
ReaderSelectClosed ==
    /\ rpc \in {"select", "data_select"}
    /\ closed
    /\ Crash("OSError", IF rpc = "select" THEN 119 ELSE 127)
    /\ UNCHANGED << clientVars, r_length, r_cmd, r_data, callerVars, netVars, histVars >>

\* lines 119-123: select returns the socket's event; msglen = recv(4);
\* length = unpack('>I', msglen)[0] - 4
ReaderRecvLen ==
    /\ rpc = "select"
    /\ Readable
    /\ \E r \in Recv(4, TRUE) :
         /\ Took(r)
         /\ IF r.exc # ""
            THEN Crash(r.exc, 121) /\ UNCHANGED << r_length, h_cur, h_eof >>
            ELSE IF r.bytes = <<>>
            THEN /\ rpc' = "remote_closed"
                 /\ h_eof' = TRUE
                 /\ UNCHANGED << r_exc, r_length, h_cur >>
            ELSE IF Len(r.bytes) # 4
            THEN Crash("struct.error", 123) /\ UNCHANGED << r_length, h_cur, h_eof >>
            ELSE /\ r_length' = BEUnsigned(r.bytes) - 4
                 /\ rpc' = "recv_cmd"
                 /\ h_cur' = IF h_headread = 0 /\ h_pending # <<>>
                             THEN Head(h_pending) ELSE <<>>
                 /\ UNCHANGED << r_exc, h_eof >>
    /\ UNCHANGED << clientVars, r_cmd, r_data, callerVars, peerClosed, nsent,
                    h_fresh, h_marker, h_sets, h_closed >>

\* line 124: cmd = recv(4).decode("ASCII")
ReaderRecvCmd ==
    /\ rpc = "recv_cmd"
    /\ \E r \in Recv(4, FALSE) :
         /\ Took(r)
         /\ IF r.exc # ""
            THEN Crash(r.exc, 124) /\ UNCHANGED r_cmd
            ELSE IF \E i \in 1..Len(r.bytes) : r.bytes[i] >= 128
            THEN Crash("UnicodeDecodeError", 124) /\ UNCHANGED r_cmd
            ELSE /\ r_cmd' = r.bytes
                 /\ rpc' = "recv_data"
                 /\ UNCHANGED r_exc
    /\ UNCHANGED << clientVars, r_length, r_data, callerVars, peerClosed, nsent,
                    histVars >>

\* the first recv's bytes taken as the payload, without the loop of line 126
AfterRecvData_NoLoop(d) == rpc' = "update" /\ r_exc' = r_exc

\* line 126: while len(data) != length, and the call of select in line 127
AfterRecvData(d) ==
    IF Len(d) = r_length THEN rpc' = "update" /\ r_exc' = r_exc
    ELSE rpc' = "data_select" /\ r_exc' = r_exc

\* line 125: data = recv(length)
ReaderRecvData ==
    /\ rpc = "recv_data"
    /\ \E r \in Recv(r_length, FALSE) :
         /\ Took(r)
         /\ IF r.exc # ""
            THEN Crash(r.exc, 125) /\ UNCHANGED r_data
            ELSE r_data' = r.bytes /\ AfterRecvData(r.bytes)
    /\ UNCHANGED << clientVars, r_length, r_cmd, callerVars, peerClosed, nsent,
                    histVars >>

\* lines 127-128: select() returns; data += recv(length - len(data))
ReaderDataRecv ==
    /\ rpc = "data_select"
    /\ Readable
    /\ \E r \in Recv(r_length - Len(r_data), TRUE) :
         /\ Took(r)
         /\ IF r.exc # ""
            THEN Crash(r.exc, 128) /\ UNCHANGED r_data
            ELSE r_data' = r_data \o r.bytes /\ AfterRecvData(r_data \o r.bytes)
    /\ UNCHANGED << clientVars, r_length, r_cmd, callerVars, peerClosed, nsent,
                    histVars >>

\* lines 131-135: if data: try update(cmd, data) except ValueError: log
ReaderUpdate ==
    /\ rpc = "update"
    /\ IF r_data = <<>>
       THEN /\ rpc' = "signal"
            /\ UNCHANGED << tensordata, lastError, r_exc, h_fresh >>
       ELSE LET u == update(tensordata, r_cmd, r_data)
            IN  IF u.exc = ""
                THEN /\ tensordata' = u.data
                     /\ rpc' = "signal"
                     /\ h_fresh' = IF cpc = "idle" THEN h_fresh
                                   ELSE h_fresh \cup ({r_cmd} \cap {newd, alld})
                     /\ UNCHANGED << lastError, r_exc >>
                ELSE IF IsValueError(u.exc)
                THEN /\ lastError' = [cmd |-> r_cmd, exc |-> u.exc,
                                      errcmd |-> u.errcmd, errlen |-> u.errlen]
                     /\ rpc' = "signal"
                     /\ UNCHANGED << tensordata, r_exc, h_fresh >>
                ELSE /\ Crash(u.exc, 133)
                     /\ UNCHANGED << tensordata, lastError, h_fresh >>
    /\ UNCHANGED << stopped, closed, data_ready_event, r_length, r_cmd, r_data,
                    callerVars, netVars, h_cur, h_marker, h_sets, h_eof, h_closed >>

\* lines 136-137: if cmd in ["newd", "alld"]: self._data_ready_event.set()
ReaderSignal ==
    /\ rpc = "signal"
    /\ IF r_cmd \in {newd, alld}
       THEN /\ data_ready_event' = TRUE
            /\ h_marker' = (cpc # "idle")
            /\ h_sets' = h_sets + 1
       ELSE UNCHANGED << data_ready_event, h_marker, h_sets >>
    /\ rpc' = "loop"
    /\ UNCHANGED << tensordata, stopped, closed, lastError, r_exc, r_length, r_cmd,
                    r_data, callerVars, netVars, h_cur, h_fresh, h_eof, h_closed >>

\* lines 140-142 without self._stopped = True
ReaderRemoteClosed_NoStop ==
    /\ rpc = "remote_closed"
    /\ IF closed
       THEN Crash("KeyError", 142) /\ UNCHANGED closed
       ELSE closed' = TRUE /\ rpc' = "loop" /\ r_exc' = r_exc
    /\ UNCHANGED << tensordata, stopped, data_ready_event, lastError, r_length,
                    r_cmd, r_data, callerVars, netVars, histVars >>

\* lines 140-142: self._stopped = True; self.close()
ReaderRemoteClosed ==
    /\ rpc = "remote_closed"
    /\ stopped' = TRUE
    /\ IF closed
       THEN Crash("KeyError", 142) /\ UNCHANGED closed   \* unregister: no such key
       ELSE closed' = TRUE /\ rpc' = "loop" /\ r_exc' = r_exc
    /\ UNCHANGED << tensordata, data_ready_event, lastError, r_length, r_cmd,
                    r_data, callerVars, netVars, histVars >>

Reader ==
    \/ ReaderLoop
    \/ ReaderSelectClosed
    \/ ReaderRecvLen
    \/ ReaderRecvCmd
    \/ ReaderRecvData
    \/ ReaderDataRecv
    \/ ReaderUpdate
    \/ ReaderSignal
    \/ ReaderRemoteClosed

(***************************************************************************)
(* The caller's thread: the client's methods.                              *)
(***************************************************************************)
\* send on a socket that takes the bytes whether it is closed or not
DoSend_NoSocketError(op, c, x) ==
    /\ cpc = "idle"
    /\ LET m == SendMsg(c, x)
       IN  IF m.exc # "" THEN ret' = Ret(op, c, x, m.exc, None, <<>>)
           ELSE ret' = Ret(op, c, x, "", None, m.bytes)
    /\ UNCHANGED << clientVars, readerVars, cpc, g_cmd, netVars, histVars >>

\* send(cmd, data), lines 144-151, called as method op
DoSend(op, c, x) ==
    /\ cpc = "idle"
    /\ LET m == SendMsg(c, x)
       IN  IF m.exc # "" THEN ret' = Ret(op, c, x, m.exc, None, <<>>)
           ELSE IF closed THEN ret' = Ret(op, c, x, "OSError", None, <<>>)
           ELSE ret' = Ret(op, c, x, "", None, m.bytes)
    /\ UNCHANGED << clientVars, readerVars, cpc, g_cmd, netVars, histVars >>

send == \E in \in SendInputs : DoSend("send", in[1], in[2])

\* lines 168-169
measure == \E nmeas \in MeasureInputs : DoSend("measure", meas, PyInt(nmeas))

\* lines 171-172
select_channels ==
    \E channels \in ChannelInputs :
        DoSend("select_channels", selc, PySeq("list", "int", channels))

\* lines 174-175
clear_data == DoSend("clear_data", cldt, None)

\* lines 178-179: cmd = "alld" if all_data else "newd"; self.send(cmd)
GetDataSend ==
    /\ cpc = "idle"
    /\ \E all_data \in BOOLEAN :
         LET c == IF all_data THEN alld ELSE newd
             m == SendMsg(c, None)
         IN  IF closed
             THEN /\ ret' = Ret("get_data", c, None, "OSError", None, <<>>)
                  /\ UNCHANGED << cpc, g_cmd >>
             ELSE /\ ret' = Ret("get_data", c, None, "pending", None, m.bytes)
                  /\ cpc' = "gd_wait"
                  /\ g_cmd' = c
    /\ UNCHANGED << clientVars, readerVars, netVars, histVars >>

\* line 180: self._data_ready_event.wait(timeout) returns True
GetDataWait ==
    /\ cpc = "gd_wait"
    /\ data_ready_event
    /\ cpc' = "gd_clear"
    /\ UNCHANGED << clientVars, readerVars, g_cmd, ret, netVars, histVars >>

\* lines 180, 183-184: the wait times out; raise TimeoutError
GetDataTimeout ==
    /\ cpc = "gd_wait"
    /\ ~ data_ready_event
    /\ cpc' = "idle"
    /\ g_cmd' = <<>>
    /\ ret' = Ret("get_data", g_cmd, None, "TimeoutError", None, ret.msg)
    /\ h_fresh' = {}
    /\ h_marker' = FALSE
    /\ UNCHANGED << clientVars, readerVars, netVars, h_cur, h_sets, h_eof, h_closed >>

\* line 181 left out: the flag stays set
GetDataClear_NoClear ==
    /\ cpc = "gd_clear"
    /\ h_sets' = 0
    /\ cpc' = "gd_return"
    /\ UNCHANGED << clientVars, readerVars, g_cmd, ret, netVars, h_cur, h_fresh,
                    h_marker, h_eof, h_closed >>

\* line 181: self._data_ready_event.clear()
GetDataClear ==
    /\ cpc = "gd_clear"
    /\ data_ready_event' = FALSE
    /\ h_sets' = 0
    /\ cpc' = "gd_return"
    /\ UNCHANGED << tensordata, stopped, closed, lastError, readerVars, g_cmd, ret,
                    netVars, h_cur, h_fresh, h_marker, h_eof, h_closed >>

\* line 182 taking the value out of the dictionary (a pop instead of a read)
GetDataReturn_Pop ==
    /\ cpc = "gd_return"
    /\ cpc' = "idle"
    /\ g_cmd' = <<>>
    /\ ret' = Ret("get_data", g_cmd, None, "", tensordata[g_cmd], ret.msg)
    /\ tensordata' = [tensordata EXCEPT ![g_cmd] = None]
    /\ h_fresh' = {}
    /\ h_marker' = FALSE
    /\ UNCHANGED << stopped, closed, data_ready_event, lastError, readerVars,
                    netVars, h_cur, h_sets, h_eof, h_closed >>

\* line 182: return self._tensordata.data[cmd]
GetDataReturn ==
    /\ cpc = "gd_return"
    /\ cpc' = "idle"
    /\ g_cmd' = <<>>
    /\ ret' = Ret("get_data", g_cmd, None, "", tensordata[g_cmd], ret.msg)
    /\ h_fresh' = {}
    /\ h_marker' = FALSE
    /\ UNCHANGED << clientVars, readerVars, netVars, h_cur, h_sets, h_eof, h_closed >>

\* __getattr__ as dict.get: None for a name that is no key
getattr_Default ==
    /\ cpc = "idle"
    /\ \E name \in AttrNames :
         ret' = IF name \in DOMAIN tensordata
                THEN Ret("getattr", name, None, "", tensordata[name], <<>>)
                ELSE Ret("getattr", name, None, "", None, <<>>)
    /\ UNCHANGED << clientVars, readerVars, cpc, g_cmd, netVars, histVars >>

\* lines 162-166: __getattr__(cmd)
getattr ==
    /\ cpc = "idle"
    /\ \E name \in AttrNames :
         ret' = IF name \in DOMAIN tensordata
                THEN Ret("getattr", name, None, "", tensordata[name], <<>>)
                ELSE Ret("getattr", name, None, "AttributeError", None, <<>>)
    /\ UNCHANGED << clientVars, readerVars, cpc, g_cmd, netVars, histVars >>

\* lines 158-160: the IDN property
IDN ==
    /\ cpc = "idle"
    /\ ret' = Ret("IDN", TENS, None, "", tensordata[TENS], <<>>)
    /\ UNCHANGED << clientVars, readerVars, cpc, g_cmd, netVars, histVars >>

\* lines 153-156: close()
close ==
    /\ cpc = "idle"
    /\ IF closed
       THEN /\ ret' = Ret("close", <<>>, None, "KeyError", None, <<>>)   \* no such key
            /\ UNCHANGED << closed, h_closed >>
       ELSE /\ closed' = TRUE
            /\ h_closed' = TRUE
            /\ ret' = Ret("close", <<>>, None, "", None, <<>>)
    /\ UNCHANGED << tensordata, stopped, data_ready_event, lastError, readerVars,
                    cpc, g_cmd, netVars, h_cur, h_fresh, h_marker, h_sets, h_eof >>

Caller ==
    \/ send
    \/ measure
    \/ select_channels
    \/ clear_data
    \/ GetDataSend
    \/ GetDataWait
    \/ GetDataTimeout
    \/ GetDataClear
    \/ GetDataReturn
    \/ getattr
    \/ IDN
    \/ close

(***************************************************************************)
(* The remote server.                                                      *)
(***************************************************************************)
\* the server writes one message to the connection
ServerSend ==
    /\ ~ peerClosed
    /\ ~ closed
    /\ nsent < MaxMsgs
    /\ \E m \in InMsgs :
         /\ rbuf' = rbuf \o m
         /\ h_pending' = Append(h_pending, m)
    /\ nsent' = nsent + 1
    /\ UNCHANGED << clientVars, readerVars, callerVars, peerClosed, nshort,
                    h_headread, histVars >>

\* the server shuts the connection down
ServerClose ==
    /\ ~ peerClosed
    /\ peerClosed' = TRUE
    /\ UNCHANGED << clientVars, readerVars, callerVars, rbuf, nsent, nshort,
                    h_pending, h_headread, histVars >>

\* where a connection that ends in the middle of a message cuts it: in the
\* length prefix, in the code, in the payload
AbortCuts == {2, 6, 12}

\* the connection ends while the server is writing a message: the first
\* bytes of the message arrive, then the end of the stream
ServerAbort ==
    /\ ~ peerClosed
    /\ ~ closed
    /\ nsent < MaxMsgs
    /\ \E k \in AbortCuts :
         LET m == SubSeq(Frame(newd, BEBytes(1, 4) \o BEBytes(1, 4) \o F1), 1, k)
         IN  /\ rbuf' = rbuf \o m
             /\ h_pending' = Append(h_pending, m)
    /\ nsent' = nsent + 1
    /\ peerClosed' = TRUE
    /\ UNCHANGED << clientVars, readerVars, callerVars, nshort, h_headread, histVars >>

Server == ServerSend \/ ServerClose \/ ServerAbort

Next == Reader \/ Caller \/ Server

Spec == Init /\ [][Next]_vars

\* the receive loop with the server, and the caller only closing the client
ReaderNext == Reader \/ Server \/ close

ReaderSpec == Init /\ [][ReaderNext]_vars


(***************************************************************************)
(* The codec alone: pack and unpack of TensormeterData called directly on  *)
(* the values and byte strings below.  ret holds the last call: its        *)
(* command, the value packed (arg), the bytes packed or unpacked (msg),    *)
(* and the value unpacked (val) or the exception raised (exc).             *)
(***************************************************************************)
\* the longest list given to pack, and the largest count in a vector payload
MaxVec == 2
\* the largest rows and cols in a matrix header
MaxDim == 3
\* the most whole elements that follow a matrix header
MaxElems == 6
\* how many bytes more than the widest scalar a payload may have
MaxExtra == 2

ScalarCodes == { c \in LUTKeys : LUT[c][1] = 0 }
VectorCodes == { c \in LUTKeys : LUT[c][1] = 1 }
MatrixCodes == { c \in LUTKeys : LUT[c][1] = 2 }

\* values of each element type that struct packs (1.0, -2.5 and 0.0 for d)
ElemVals(fmt) ==
    CASE fmt = "d" -> { <<1072693248, 0>>, <<-1073479680, 0>>, <<0, 0>> }
      [] fmt = "?" -> { <<0>>, <<1>> }
      [] fmt = "H" -> { <<0>>, <<1>>, <<256>>, <<65535>> }
      [] fmt = "I" -> { <<0>>, <<1>>, <<65536>>, <<2147483647>> }
      [] fmt = "i" -> { <<0>>, <<5>>, <<-1>>, <<-2147483647 - 1>>, <<2147483647>> }

\* the Python value of one element
PyElem(fmt, e) == [t |-> FmtType(fmt), shape |-> <<>>, v |-> <<e>>]

\* the sequences of at most n elements of S
SeqsUpTo(S, n) == UNION { [1..k -> S] : k \in 0..n }

\* arguments of pack(cmd, data): values of the field's type, and values
\* that pack refuses
PackInputs ==
    UNION { { <<c, PyElem(LUT[c][2], e)>> : e \in ElemVals(LUT[c][2]) } : c \in ScalarCodes }
    \cup UNION { { <<c, PySeq("list", FmtType(LUT[c][2]), q)>> :
                      q \in SeqsUpTo(ElemVals(LUT[c][2]), MaxVec) } : c \in VectorCodes }
    \cup { <<cmod, PyInt(65536)>>, <<trmo, PyInt(-1)>>, <<meas, PyFloat(1072693248, 0)>>,
           <<selc, PyInt(3)>>, <<newd, PyArray(1, 1, <<<<0, 0>>>>)>> }

\* n bytes, any two windows of 8 of them different
Fill(n) == [ i \in 1..n |-> (i * 7) % 128 ]

\* arguments of unpack(cmd, data): payloads of every length around the
\* field's size, vector counts and matrix headers that agree with the bytes
\* after them and that do not
UnpackInputs ==
    { <<c, Fill(n)>> : c \in ScalarCodes, n \in 0..(8 + MaxExtra) }
    \cup { <<c, BEBytes(n, 4) \o Fill(k)>> :
              c \in VectorCodes, n \in 0..MaxVec, k \in 0..(8 * MaxVec + MaxExtra) }
    \cup { <<c, BEBytes(r, 4) \o BEBytes(k, 4) \o Fill(8 * n + x)>> :
              c \in MatrixCodes, r \in 0..MaxDim, k \in 0..MaxDim,
              n \in 0..MaxElems, x \in {0, 3} }
    \cup { <<c, Fill(k)>> : c \in VectorCodes \cup MatrixCodes, k \in 0..7 }
    \cup { <<TENS, Fill(3)>>, <<TENS, <<200>>>> }

\* what a call of pack or unpack leaves alone
codecFrame == << clientVars, readerVars, cpc, g_cmd, netVars, histVars >>

\* pack(cmd, data), lines 52-61.  pack and unpack are pure: a run makes one
\* call, or one pack and the unpack of its result
CodecPack ==
    /\ ret.op = "__init__"
    /\ \E in \in PackInputs :
         LET p == pack(in[1], in[2])
         IN  ret' = Ret("pack", in[1], in[2], p.exc, None, p.bytes)
    /\ UNCHANGED codecFrame

\* unpack(cmd, data), lines 63-78
CodecUnpack ==
    /\ ret.op = "__init__"
    /\ \E in \in UnpackInputs :
         LET u == unpack(in[1], in[2])
         IN  ret' = Ret("unpack", in[1], None, u.exc, u.val, in[2])
    /\ UNCHANGED codecFrame

\* unpack(cmd, pack(cmd, data)): unpack called on what pack returned
CodecUnpackPacked ==
    /\ ret.op = "pack"
    /\ ret.exc = ""
    /\ LET u == unpack(ret.cmd, ret.msg)
       IN  ret' = Ret("unpack", ret.cmd, ret.arg, u.exc, u.val, ret.msg)
    /\ UNCHANGED codecFrame

CodecNext == CodecPack \/ CodecUnpack \/ CodecUnpackPacked

CodecSpec == Init /\ [][CodecNext]_vars

(***************************************************************************)
(* Properties.                                                             *)
(***************************************************************************)
\* the parts of a wire message
MsgPrefix(m) == BEUnsigned(SubSeq(m, 1, 4))
MsgCode(m) == SubSeq(m, 5, 8)
MsgPayload(m) == SubSeq(m, 9, Len(m))

\* the codes the store recognizes
StoreKeys == LUTKeys \cup {TENS}

\* C1: whenever get_data returns a value, the entry of its code was stored
\* by the receive loop from a message processed after this call sent its
\* request (never an older value, an unset entry, or the effect of a signal
\* raised for the other code or an earlier request).
C1_ReturnsFreshValue == cpc = "gd_return" => g_cmd \in h_fresh

\* C2: a get_data call during which the receive loop processes no newd/alld
\* message does not get past its wait: it fails with TimeoutError.
C2_TimeoutWithoutMarker == cpc \in {"gd_clear", "gd_return"} => h_marker

\* some step of the loop of _reader is possible (a select that the closing
\* of its selector left blocked may never return)
ReaderCanRun ==
    ENABLED (ReaderLoop \/ ReaderRecvLen \/ ReaderRecvCmd \/ ReaderRecvData
             \/ ReaderDataRecv \/ ReaderUpdate \/ ReaderSignal \/ ReaderRemoteClosed)

\* C3: after the caller's close() the receive loop becomes Stopped and the
\* thread leaves its loop: once close() has returned, a _reader thread that
\* can run no further has seen _stopped set and has left the loop.
C3_CloseStopsReader == (h_closed /\ ~ ReaderCanRun) => (stopped /\ rpc = "exited")

\* C4: once _reader has read zero bytes for a length prefix, it sets
\* _stopped, the socket gets closed and the thread ends; from that read on
\* no entry of the store changes and the data-ready signal is not raised.
C4_RemoteShutdownStops ==
    /\ [](h_eof /\ rpc # "remote_closed" =>
            /\ stopped
            /\ closed
            /\ \/ rpc \in {"loop", "exited"}
               \/ rpc = "crashed" /\ r_exc.exc = "KeyError" /\ h_closed)
    /\ [][h_eof => /\ tensordata' = tensordata
                   /\ (data_ready_event' => data_ready_event)]_vars

C4_Witness == h_eof /\ rpc = "exited" /\ stopped /\ closed /\ nsent > 0

\* C5: a message with an unrecognized code or an undecodable payload never
\* ends the _reader thread: no exception raised by update (line 133) escapes.
C5_MalformedNeverKills == ~ (rpc = "crashed" /\ r_exc.line = 133)

\* C6: what _reader passes to update has exactly the length the prefix
\* announced (L - 4), and, for a message whose prefix and code were read
\* whole, is that message's code and its payload bytes in order, however the
\* payload was split across reads.
C6_WholePayload ==
    rpc = "update" =>
        /\ Len(r_data) = r_length
        /\ (h_cur # <<>> /\ Len(r_cmd) = 4) =>
              /\ r_length = MsgPrefix(h_cur) - 4
              /\ r_cmd = MsgCode(h_cur)
              /\ r_data = MsgPayload(h_cur)

\* a payload that arrived in more than one recv is about to be passed on
C6_Witness ==
    /\ rpc = "update"
    /\ nsent = 1 /\ nshort = 1
    /\ h_cur # <<>> /\ Len(r_cmd) = 4
    /\ Len(r_data) > 1

\* C7: a send, measure or select_channels call with a scalar or vector code
\* that succeeds has written the length prefix, the code and the encoding of
\* its value, whatever the value (0, False and the empty list included).
C7_SendWritesEncodedValue ==
    (/\ ret.op \in {"send", "measure", "select_channels"}
     /\ ret.exc = ""
     /\ ret.cmd \in LUTKeys /\ LUT[ret.cmd][1] \in {0, 1}
     /\ ret.arg.t # "None")
    => ret.msg = Frame(ret.cmd, pack(ret.cmd, ret.arg).bytes)

\* C8: the store changes only in the step of _reader that stores the decoded
\* payload of the message it has just read, under that message's code; no
\* step of the caller changes it.
C8_SingleWriter ==
    [][tensordata' # tensordata =>
          /\ rpc = "update" /\ rpc' = "signal"
          /\ callerVars' = callerVars
          /\ h_cur # <<>>
          /\ r_cmd = MsgCode(h_cur)
          /\ r_data = MsgPayload(h_cur)
          /\ r_cmd \in StoreKeys
          /\ unpack(r_cmd, r_data).exc = ""
          /\ tensordata' = [tensordata EXCEPT ![r_cmd] = unpack(r_cmd, r_data).val]]_vars

\* a value is stored and the caller has made calls in between
C8_Witness ==
    /\ tensordata[newd] # None
    /\ ret.op = "get_data" /\ ret.exc = "" /\ ret.val = tensordata[newd]

\* C9: update with a code that is no key of the store fails with the error
\* that names the code and the payload's length, the thread going on, and
\* leaves every entry and the key set as they were.
C9_UnknownCodeRejected ==
    /\ [](DOMAIN tensordata = StoreKeys)
    /\ [][(rpc = "update" /\ rpc' # rpc /\ r_data # <<>> /\ r_cmd \notin StoreKeys) =>
            /\ rpc' = "signal"
            /\ tensordata' = tensordata
            /\ lastError' = [cmd |-> r_cmd, exc |-> "ValueError",
                             errcmd |-> r_cmd, errlen |-> Len(r_data)]]_vars

C9_Witness ==
    /\ lastError.exc = "ValueError" /\ lastError.errcmd = zzzz /\ lastError.errlen = 1
    /\ rpc = "signal"

\* C10: the data-ready signal is one flag and no counter: it is set exactly
\* when at least one newd/alld message was processed since the last clear, a
\* wait succeeds only then, and the clear of one wait resets it, however many
\* messages had set it.
C10_BinarySignal ==
    /\ [](data_ready_event <=> h_sets > 0)
    /\ [](cpc = "gd_clear" => data_ready_event)
    /\ [][(cpc = "gd_clear" /\ cpc' # cpc) => ~ data_ready_event']_vars

\* one wait is about to consume a signal that two messages have raised
C10_Witness == cpc = "gd_clear" /\ h_sets = 2 /\ data_ready_event


(***************************************************************************)
(* Properties of the codec.                                                *)
(***************************************************************************)
\* the element e is a value of the type of format fmt
ElemInRange(fmt, e) ==
    CASE fmt = "d" -> Len(e) = 2
      [] fmt = "?" -> e[1] \in {0, 1}
      [] fmt = "H" -> e[1] >= 0 /\ e[1] <= 65535
      [] fmt = "I" -> e[1] >= 0
      [] fmt = "i" -> TRUE

\* x is a value of the type of field c: one element of a scalar field, a
\* sequence of elements of a vector field
InRange(c, x) ==
    LET fmt == LUT[c][2]
    IN  IF c \in ScalarCodes
        THEN x.t = FmtType(fmt) /\ ElemInRange(fmt, x.v[1])
        ELSE /\ c \in VectorCodes
             /\ IsSeq(x)
             /\ ElemType(x) = FmtType(fmt)
             /\ \A i \in 1..Len(x.v) : ElemInRange(fmt, x.v[i])

\* a and b are the same value: the same elements of the same type in the
\* same order (a list and a tuple of them are the same sequence)
SameValue(a, b) ==
    /\ a.v = b.v
    /\ IF IsSeq(b) THEN IsSeq(a) /\ ElemType(a) = ElemType(b) ELSE a.t = b.t

\* C11: pack takes every value of the type of a scalar or vector field, a
\* vector being packed as the big-endian u32 count and then its elements,
\* and unpack of what pack returned gives the value back.
C11_RoundTrip ==
    /\ (ret.op = "pack" /\ InRange(ret.cmd, ret.arg)) =>
          /\ ret.exc = ""
          /\ ret.cmd \in VectorCodes =>
                /\ Len(ret.msg) = 4 + Len(ret.arg.v) * FmtSize(LUT[ret.cmd][2])
                /\ SubSeq(ret.msg, 1, 4) = BEBytes(Len(ret.arg.v), 4)
    /\ (ret.op = "unpack" /\ ret.arg # None) =>
          /\ InRange(ret.cmd, ret.arg)
          /\ ret.exc = ""
          /\ SameValue(ret.val, ret.arg)

\* the list [-1, 5] of selc went through pack and unpack
C11_Witness ==
    /\ ret.op = "unpack" /\ ret.cmd = selc /\ ret.exc = ""
    /\ ret.arg = PySeq("list", "int", << <<-1>>, <<5>> >>)
    /\ ret.val.v = << <<-1>>, <<5>> >>

\* C12: unpack of a scalar field fails (struct.error) and gives no value
\* whenever the payload is not exactly one element wide, and unpack of a
\* vector field whenever the bytes after the count n are not exactly n
\* elements, too few or too many.
C12_LengthMismatchRejected ==
    (ret.op = "unpack" /\ ret.cmd \in ScalarCodes \cup VectorCodes) =>
        LET w == FmtSize(LUT[ret.cmd][2])
            bad == IF ret.cmd \in ScalarCodes THEN Len(ret.msg) # w
                   ELSE \/ Len(ret.msg) < 4
                        \/ Len(ret.msg) - 4 # BEUnsigned(SubSeq(ret.msg, 1, 4)) * w
        IN  bad => ret.exc = "struct.error" /\ ret.val = None

\* a vector payload with count 1 and two elements after it was refused
C12_Witness ==
    /\ ret.op = "unpack" /\ ret.cmd = selc
    /\ ret.msg = BEBytes(1, 4) \o Fill(8)
    /\ ret.exc = "struct.error"

\* the element at row i, column j (from 0) of a 2-d array
ArrayAt(a, i, j) == a.v[i * a.shape[2] + j + 1]

\* C13: a matrix payload with header (rows, cols) and elements e[0..] is
\* unpacked to an array of cols rows and rows columns whose element (i, j)
\* is e[i*rows + j].
C13_MatrixAxisSwap ==
    (ret.op = "unpack" /\ ret.cmd \in MatrixCodes /\ ret.exc = "") =>
        LET rows == BEUnsigned(SubSeq(ret.msg, 1, 4))
            cols == BEUnsigned(SubSeq(ret.msg, 5, 8))
            e(k) == UnpackElem("d", SubSeq(ret.msg, 9 + 8 * k, 16 + 8 * k))
        IN  /\ ret.val.t = "ndarray"
            /\ ret.val.shape = <<cols, rows>>
            /\ Len(ret.val.v) = rows * cols
            /\ \A i \in 0..(cols - 1) : \A j \in 0..(rows - 1) :
                  ArrayAt(ret.val, i, j) = e(i * rows + j)

\* rows = 2, cols = 3 and 6 elements gave a 3 x 2 array
C13_Witness ==
    /\ ret.op = "unpack" /\ ret.cmd = newd /\ ret.exc = ""
    /\ ret.msg = BEBytes(2, 4) \o BEBytes(3, 4) \o Fill(48)
    /\ ret.val.shape = <<3, 2>>

\* C18 as stated: unpack of a matrix payload of at least 8 bytes never fails,
\* whatever the header and the number of bytes after it.
C18_NoLengthValidation ==
    (ret.op = "unpack" /\ ret.cmd \in MatrixCodes /\ Len(ret.msg) >= 8) => ret.exc = ""

\* C18: unpack of a matrix payload of at least 8 bytes succeeds exactly when
\* the bytes after the header are rows*cols elements of 8 bytes; otherwise it
\* fails with ValueError and gives no value.
C18_MismatchRejected ==
    (ret.op = "unpack" /\ ret.cmd \in MatrixCodes /\ Len(ret.msg) >= 8) =>
        LET rows == BEUnsigned(SubSeq(ret.msg, 1, 4))
            cols == BEUnsigned(SubSeq(ret.msg, 5, 8))
        IN  IF Len(ret.msg) - 8 = rows * cols * 8
            THEN ret.exc = "" /\ ret.val # None
            ELSE ret.exc = "ValueError" /\ ret.val = None

\* a header of 2 x 1 followed by one element was refused
C18_Witness ==
    /\ ret.op = "unpack" /\ ret.cmd = alld
    /\ ret.msg = BEBytes(2, 4) \o BEBytes(1, 4) \o Fill(8)
    /\ ret.exc = "ValueError"


(***************************************************************************)
(* Properties of the client after a failure, of its store and its signal.  *)
(***************************************************************************)
\* the calls that write to the socket
SendingOps == {"send", "measure", "select_channels", "clear_data", "get_data"}

\* C14: once _reader has detected the remote close, set _stopped and closed
\* the socket, every send, measure, select_channels, clear_data and get_data
\* call made from then on raises an error, and leaves the store and the
\* data-ready signal as they are.
C14_CallsFailAfterRemoteClose ==
    [][(/\ h_eof /\ stopped /\ closed
        /\ cpc = "idle"
        /\ ret' # ret
        /\ ret'.op \in SendingOps)
       => /\ ret'.exc \notin {"", "pending"}
          /\ cpc' = "idle"
          /\ tensordata' = tensordata
          /\ data_ready_event' = data_ready_event]_vars

\* measure was called after the remote close and raised OSError
C14_Witness ==
    /\ h_eof /\ stopped /\ closed /\ ~ h_closed
    /\ ret.op = "measure" /\ ret.exc = "OSError"


\* C15: the keys of the store are the catalog codes and TENS in every state;
\* until a message was received every catalog code maps to None and TENS to
\* the empty string; and reading a name as an attribute returns the store's
\* value of that moment (None for an unset entry) when the name is a key,
\* and raises AttributeError when it is not.
C15_StoreKeySet ==
    /\ [](DOMAIN tensordata = LUTKeys \cup {TENS})
    /\ [](nsent = 0 => /\ \A k \in LUTKeys : tensordata[k] = None
                       /\ tensordata[TENS] = PyStr(<<>>))
    /\ [][(ret'.op = "getattr" /\ ret' # ret) =>
            /\ tensordata' = tensordata
            /\ IF ret'.cmd \in LUTKeys \cup {TENS}
               THEN ret'.exc = "" /\ ret'.val = tensordata[ret'.cmd]
               ELSE ret'.exc = "AttributeError" /\ ret'.val = None]_vars

\* both kinds of read have happened: a name that is no key was refused
\* after a matrix had been stored under newd
C15_Witness ==
    /\ tensordata[newd] # None
    /\ ret.op = "getattr" /\ ret.cmd = zzzz /\ ret.exc = "AttributeError"


\* C16: the data-ready signal is raised only by _reader, only for a newd or
\* alld message, and only when that message's payload was decoded and stored:
\* at that moment the store's entry of the code is the decoded payload; it is
\* not raised for a message with an empty payload or one that failed to decode.
C16_SignalOnlyForStored ==
    [][h_sets' > h_sets =>
          /\ rpc = "signal"
          /\ callerVars' = callerVars
          /\ r_cmd \in {newd, alld}
          /\ r_data # <<>>
          /\ unpack(r_cmd, r_data).exc = ""
          /\ tensordata[r_cmd] = unpack(r_cmd, r_data).val]_vars


(***************************************************************************)
(* Properties of the receive loop on a segmented or ended byte stream.     *)
(***************************************************************************)
\* C17: however the byte stream is cut into the results of recv, reads of
\* fewer than 4 bytes of a prefix or a code included, _reader gives update
\* the code and the payload of each message as if it had arrived in one
\* piece: while the server keeps the connection open, no read of part of a
\* header ends the thread, and what reaches update is the code and payload
\* of the message whose prefix was read.
C17_SameAsUnsegmented ==
    ~ peerClosed =>
        /\ ~ (/\ rpc = "crashed"
              /\ r_exc.exc \in {"struct.error", "BlockingIOError"}
              /\ r_exc.line \in {121, 123, 124, 125, 128})
        /\ rpc = "update" =>
              /\ h_cur # <<>>
              /\ r_cmd = MsgCode(h_cur)
              /\ r_data = MsgPayload(h_cur)

\* C19: once the peer has ended the connection and every byte it sent was
\* read, a _reader thread that is alive, and whose client the caller has not
\* closed, goes on until it has set _stopped and closed the socket: it is
\* never left with no step that changes anything, as in the loop of lines
\* 126-128 reading the ended stream again and again.
C19_NeverStuckAtPeerClose ==
    (AtEOF /\ ~ h_closed /\ rpc \notin {"crashed", "exited"} /\ ~ ENABLED <<Reader>>_vars)
    => (stopped /\ closed)

\* C20: once close() has returned, no entry of the store changes and the
\* data-ready signal is not raised, whatever _reader had read before.
C20_NoEffectAfterClose ==
    [][h_closed => /\ tensordata' = tensordata
                   /\ (data_ready_event' => data_ready_event)]_vars

=============================================================================
